---------------------------- MODULE Spec2Model ----------------------------
(***************************************************************************)
(* State-machine model of MCM3000Controller                                *)
(* (src/src/braman/controller/z_stage/z_controllers/mcm3000_controller.py) *)
(*                                                                         *)
(* One action per public operation; each action is the whole call,         *)
(* including the nested calls it makes (legalize, minimum-motion nudge,    *)
(* move, poll loop).  The device is the environment: every position        *)
(* response, and every link fault, is a nondeterministic choice.  A call   *)
(* is computed as the SET of machines it can end in.                       *)
(*                                                                         *)
(* Micrometre values are Python floats in the source.  Here they are       *)
(* integers in units of 1/UnitsPerCount of one conversion step             *)
(* (0.2116667 um), so that encoder*conversion is exact and um/conversion   *)
(* truncates toward zero as int() does.  The one place where IEEE          *)
(* rounding changes an integer result, int((e*c)/c) = e-1 for some e, is   *)
(* tabulated in LossyMagnitudes.                                           *)
(***************************************************************************)
EXTENDS Integers, Sequences, FiniteSets, TLC

\* ------------------------------------------------------------------------
\* Optional values (Python None)
None == <<>>
Some(x) == <<x>>
Val(o) == o[1]

Abs(x) == IF x < 0 THEN -x ELSE x
Sign(x) == IF x < 0 THEN -1 ELSE IF x > 0 THEN 1 ELSE 0

\* int(a / b) of Python for b > 0: truncation toward zero
TruncDiv(a, b) == IF a >= 0 THEN a \div b ELSE -((-a) \div b)

\* ------------------------------------------------------------------------
\* Program constants

\* one encoder count = one conversion step (0.2116667 um) = UnitsPerCount units
UnitsPerCount == 1000
\* supported_stages['ZFM2020'][0] = 12700 um = 59999.99055 steps, in units
\* (floor: every value compared with it is an integer number of units)
ZFM2020LimitUnits == 59999990
\* the 10 um of the minimum-motion nudge = 47.24409 steps, in units
NudgeUnits == 47244
min_encoder_motion == 5
\* _finish_move: 6 s deadline, 0.1 s polling wait (milliseconds)
TimeoutMs == 6000
PollingWaitMs == 100

\* channel labels and their internal indices (_internal_channels_dict)
channels == {1, 2, 3}
internal_channel(channel) == channel - 1
Index == {0, 1, 2}

\* Encoders e of the modelled windows with int((e*0.2116667)/0.2116667) # e
\* in IEEE double arithmetic (the result is then e - Sign(e)).
LossyMagnitudes ==
    {11, 19, 22, 38, 44, 76, 88, 105, 117, 152, 169, 176, 193,
     9689, 9690, 9708, 9709, 9728, 9747, 9748, 9767, 9786, 9787,
     59824, 59826, 59861, 59863, 59865, 59900, 59902, 59904, 59939, 59941,
     59943, 59978, 59980, 59982, 60017, 60019, 60021, 60056, 60058, 60060,
     60095, 60097, 60099, 60134, 60136, 60138, 60173, 60175, 60177}
\* the windows the table covers
Tabulated(e) ==
    \/ Abs(e) <= 200
    \/ (Abs(e) >= 4700 /\ Abs(e) <= 4800)
    \/ (Abs(e) >= 9600 /\ Abs(e) <= 9800)
    \/ (Abs(e) >= 59800 /\ Abs(e) <= 60200)
\* Lossy encoders e of those windows for which the doubles e*0.2116667 and
\* (e-1)*0.2116667 are more than 0.2116667 apart (by about 2e-14)
ExcessMagnitudes == {9690, 9709, 9748, 9787}

\* ------------------------------------------------------------------------
\* Model bounds and the environment's choices

\* the device confirms a target at its 1st .. MaxReachReads-th position read
MaxReachReads == 1
\* time one position query takes on the link (ms)
ReadDelaysMs == {1}
\* where a device that never confirms target t is last seen
StallReads(t) == {t - 1}
\* faults of one query/response pair: the echoed channel byte differs, or
\* bytes are left on the link
ReadFaults == {"ProtocolMismatch", "LinkDesync"}
\* the faults of a query/response pair inside a poll loop: the same
PollFaults == ReadFaults

VARIABLES
    phase,                       \* "new" | "open" | "closed" (self.port)
    stages,                      \* self.stages, by internal index
    reverse,                     \* self.reverse
    verbose,                     \* self.verbose
    current_encoder_value,       \* self._current_encoder_value
    pending_encoder_value,       \* self._pending_encoder_value
    stage_upper_limit_um,        \* self._stage_upper_limit_um
    stage_lower_limit_um,        \* self._stage_lower_limit_um
    stage_lowest_scan_point_um,  \* self._stage_lowest_scan_point_um
    stage_highest_scan_point_um, \* self._stage_highest_scan_point_um
    stage_retract_point_um,      \* self._stage_retract_point_um
    outstanding,                 \* history: target of the written, unresolved move
    call                         \* the last public call: input, frames, outcome

vars == <<phase, stages, reverse, verbose, current_encoder_value,
          pending_encoder_value, stage_upper_limit_um, stage_lower_limit_um,
          stage_lowest_scan_point_um, stage_highest_scan_point_um,
          stage_retract_point_um, outstanding, call>>

\* ------------------------------------------------------------------------
\* Unit conversion

rev(i) == reverse[i]
reverse_factors(i) == IF reverse[i] THEN -1 ELSE 1

\* _um_from_encoder_value: encoder * conversion, negated when reversed
um_from_encoder_value(i, encoder_value) ==
    LET um == encoder_value * UnitsPerCount
    IN  IF reverse[i] THEN -um ELSE um

\* int(um / conversion) as IEEE doubles compute it: truncation toward zero,
\* and one count short when um is exactly e steps with e a lossy encoder
FloatInt(um) ==
    LET q == TruncDiv(um, UnitsPerCount)
    IN  IF q * UnitsPerCount = um /\ Abs(q) \in LossyMagnitudes
        THEN q - Sign(q)
        ELSE q

\* _encoder_value_from_um
encoder_value_from_um(i, um) ==
    LET encoder_value == FloatInt(um)
    IN  IF reverse[i] THEN -encoder_value ELSE encoder_value

\* abs(_um_from_encoder_value(_encoder_value_from_um(um)) - um) exceeds one
\* conversion step, as IEEE doubles compute it
round_trip_exceeds_step(i, um) ==
    LET back == um_from_encoder_value(i, encoder_value_from_um(i, um))
        q == TruncDiv(um, UnitsPerCount)
    IN  \/ Abs(back - um) > UnitsPerCount
        \/ /\ Abs(back - um) = UnitsPerCount
           /\ q * UnitsPerCount = um
           /\ Abs(q) \in ExcessMagnitudes

\* Python truthiness of the values the code tests with a bare `if x:`
Truthy(o) == o # None /\ Val(o) # 0

\* ------------------------------------------------------------------------
\* Frames: the bytes written to and read from the port

Pow256(k) == IF k = 0 THEN 1 ELSE IF k = 1 THEN 256 ELSE IF k = 2 THEN 65536 ELSE 16777216

\* x.to_bytes(n, byteorder='little') of a channel index
to_bytes(x, n) == [k \in 1..n |-> (x \div Pow256(k - 1)) % 256]

\* encoder_value.to_bytes(4, 'little', signed=True): two's complement
signed_to_bytes(v) == [k \in 1..4 |-> (v \div Pow256(k - 1)) % 256]

\* a decoder that takes the four bytes most significant first (C33 holds
\* because the response is decoded little-endian)
int_from_bytesBigEndian(b) ==
    b[4] + 256 * b[3] + 65536 * b[2]
         + 16777216 * (IF b[1] >= 128 THEN b[1] - 256 ELSE b[1])

\* int.from_bytes(b, byteorder='little', signed=True) of four bytes
int_from_bytes(b) ==
    b[1] + 256 * b[2] + 65536 * b[3]
         + 16777216 * (IF b[4] >= 128 THEN b[4] - 256 ELSE b[4])

\* the query-position frame of _get_encoder_value
query_cmd(i) == <<10, 4>> \o to_bytes(i, 1) \o <<0, 0, 0>>
\* the move-to frame of _move_to_encoder_value
move_cmd(i, encoder_value) ==
    <<83, 4, 6, 0, 0, 0>> \o to_bytes(i, 2) \o signed_to_bytes(encoder_value)
\* the zero-encoder frame of _set_encoder_value_to_zero
zero_cmd(i) == <<9, 4, 6, 0, 0, 0>> \o to_bytes(i, 2) \o signed_to_bytes(0)

\* the 12 bytes the device answers to a position query: the channel it
\* answers for in byte 6, its encoder in bytes 8..11 (the bytes the code does
\* not look at are 0 here)
position_response(echo, v) ==
    <<0, 0, 0, 0, 0, 0, echo, 0>> \o signed_to_bytes(v)
\* response[-4:] of _get_encoder_value, decoded
decoded_encoder(response) == int_from_bytes(SubSeq(response, 9, 12))

\* ------------------------------------------------------------------------
\* The machine a call runs on: the controller's mutable state, the frames
\* written so far in the call, and how the call stands.

\* a scan/retract attribute: the per-channel list of __init__, or the single
\* float that set_stage_limit_um / set_retract_point_um assign over it
List(f) == [list |-> TRUE, at |-> f, val |-> 0]
Float(v) == [list |-> FALSE, at |-> [i \in Index |-> None], val |-> v]

\* a command written with no response read: a move-to frame for encoder enc
\* or a zero-encoder frame
Ev(k, i, enc, n, note) ==
    [k |-> k, ch |-> i, enc |-> enc, n |-> n, note |-> note,
     frame |-> IF k = "move" THEN move_cmd(i, enc) ELSE zero_cmd(i),
     resp |-> <<>>]

\* a position query and its response, the device being at encoder v: the last
\* of n reads of a loop of kind k; enc is the value the code decodes.  In a
\* response that fails with ProtocolMismatch the channel echoed is another one.
Rd(k, i, v, n, note) ==
    LET response ==
            position_response(IF note = "ProtocolMismatch" THEN (i + 1) % 3 ELSE i, v)
    IN  [k |-> k, ch |-> i, enc |-> decoded_encoder(response), n |-> n, note |-> note,
         frame |-> query_cmd(i),
         resp |-> response]

Machine ==
    [cur |-> current_encoder_value,
     pend |-> pending_encoder_value,
     low |-> stage_lowest_scan_point_um,
     high |-> stage_highest_scan_point_um,
     retr |-> stage_retract_point_um,
     out |-> outstanding,
     wire |-> <<>>,
     err |-> "none",
     ret |-> None,
     rd |-> 0,
     target |-> None,
     ref |-> None,
     nudges |-> 0]

Fail(m, e) == [m EXCEPT !.err = e]
Ok(m) == m.err = "none"

\* run F on every machine of S that has not failed; a failed one stays as it is
Then(S, F(_)) == UNION {IF Ok(m) THEN F(m) ELSE {m} : m \in S}

\* what the device may answer to a position query outside a poll loop: the
\* position last confirmed, or a position beyond the travel limit
OutOfTravel(i) == reverse_factors(i) * 60000
PositionReads(m, i) ==
    (IF m.cur[i] = None THEN {} ELSE {Val(m.cur[i])}) \cup {OutOfTravel(i)}

\* ------------------------------------------------------------------------
\* Transport and codec

\* _send for a command with no response (move-to, zero-encoder): the stage
\* check, the write, then the check that no byte is left on the link
send_command(m, i, k, enc) ==
    IF stages[i] = None THEN {Fail(m, "ConfigurationError")}
    ELSE LET note == IF k = "move" /\ m.out[i] # None THEN "pipelined" ELSE ""
             w == [m EXCEPT !.wire = Append(@, Ev(k, i, enc, 1, note)),
                            !.out[i] = IF k = "move" THEN Some(enc) ELSE @]
         IN  {w, Fail(w, "LinkDesync")}

\* a read that stores the decoded value before the link is checked for
\* leftover bytes (C34 holds because the assert of _send raises before
\* _get_encoder_value returns a value to store)
failed_readDesyncStores(m, i, k, n, f) ==
    [m EXCEPT !.wire = Append(@, Rd(k, i, 0, n, f)),
              !.cur[i] = IF f = "LinkDesync" THEN Some(OutOfTravel(i)) ELSE @,
              !.err = f]

\* a read whose asserts accept the response although its echo is wrong, and
\* take the decoded value for the position (C15 holds because the asserts of
\* _send and _get_encoder_value raise before anything is stored)
failed_readMutant(m, i, k, n, f) ==
    [m EXCEPT !.wire = Append(@, Rd(k, i, 0, n, f)),
              !.cur[i] = Some(0),
              !.err = f]

\* the n-th read of a loop of kind k fails its assert with fault f: the query
\* was written, the response is discarded, nothing is stored
failed_read(m, i, k, n, f) ==
    [m EXCEPT !.wire = Append(@, Rd(k, i, 0, n, f)), !.err = f]

\* a position read that skips the stage check of _send (C16 holds because
\* _send asserts the stage before it writes)
get_encoder_valueMutant(m, i, reads) ==
    {[m EXCEPT !.wire = Append(@, Rd("query", i, v, 1, "")),
               !.rd = Rd("query", i, v, 1, "").enc] : v \in reads}

\* _get_encoder_value: one query frame, one 12-byte response; the echoed
\* channel byte and the emptied link are asserted; the value is left in rd
get_encoder_value(m, i, reads) ==
    IF stages[i] = None THEN {Fail(m, "ConfigurationError")}
    ELSE {[m EXCEPT !.wire = Append(@, Rd("query", i, v, 1, "")),
                    !.rd = Rd("query", i, v, 1, "").enc]
             : v \in reads}
         \cup {failed_read(m, i, "query", 1, f)
             : f \in ReadFaults}

\* ------------------------------------------------------------------------
\* _finish_move: the poll loop

\* a poll loop whose deadline check comes ten polls late (C4 holds because
\* the deadline is checked at every poll)
ReadsUntilTimeoutMutant(elapsed, reads, d) ==
    ((TimeoutMs - elapsed) \div (PollingWaitMs + d)) + reads + 11

\* position reads made by a loop that never sees the target, each read taking
\* d ms: the first read, then sleep-and-read until time.time() > timeout
RECURSIVE ReadsUntilTimeout(_, _, _)
ReadsUntilTimeout(elapsed, reads, d) ==
    IF elapsed > TimeoutMs THEN reads
    ELSE ReadsUntilTimeout(elapsed + PollingWaitMs + d, reads + 1, d)

\* a resolve that clears the pending target and keeps the old current
\* encoder (C5 holds because line 337 stores the last read)
finished_moveMutant(m, i, v, n, note) ==
    [m EXCEPT !.wire = Append(@, Rd("poll", i, v, n, note)),
              !.rd = v,
              !.pend[i] = None,
              !.out[i] = None]

\* a resolve that takes the pending target for the position reached, without
\* looking at what was read (C21 holds because line 337 stores the last read)
finished_moveInferred(m, i, v, n, note) ==
    [m EXCEPT !.wire = Append(@, Rd("poll", i, v, n, note)),
              !.rd = v,
              !.cur[i] = m.pend[i],
              !.pend[i] = None,
              !.out[i] = None]

\* the end of _finish_move once its loop has broken with the device at v at
\* the last read, after n reads: current is refreshed from the value decoded
\* and pending is cleared
finished_move(m, i, v, n, note) ==
    [m EXCEPT !.wire = Append(@, Rd("poll", i, v, n, note)),
              !.rd = Rd("poll", i, v, n, note).enc,
              !.cur[i] = Some(Rd("poll", i, v, n, note).enc),
              !.pend[i] = None,
              !.out[i] = None]

\* a resolve that reads the position and stores it whether or not a move is
\* pending (C32 holds because line 320 returns at once on an Idle axis)
finish_moveAlways(m, i) ==
    IF stages[i] = None THEN {Fail(m, "ConfigurationError")}
    ELSE {finished_move(m, i, v, 1, "reached") : v \in PositionReads(m, i)}

finish_move(m, i) ==
    IF m.pend[i] = None THEN {m}
    ELSE IF stages[i] = None THEN {Fail(m, "ConfigurationError")}
    ELSE LET t == Val(m.pend[i])
         IN  {finished_move(m, i, t, n, "reached") : n \in 1..MaxReachReads}
             \cup {finished_move(m, i, v, ReadsUntilTimeout(0, 1, d), "timeout")
                     : v \in StallReads(t), d \in ReadDelaysMs}
             \cup {failed_read(m, i, "poll", n, f)
                     : f \in PollFaults, n \in 1..MaxReachReads}

\* a move that resolves whatever block says (C20 holds because line 303
\* resolves only if block)
move_to_encoder_valueMutant(m, i, encoder_value, block) ==
    Then(Then(Then(finish_move(m, i),
                   LAMBDA a : send_command(a, i, "move", encoder_value)),
              LAMBDA a : {[a EXCEPT !.pend[i] = Some(encoder_value)]}),
         LAMBDA a : finish_move(a, i))

\* a move that first resolves the outstanding move of every channel, not
\* only of its own (C30 holds because line 294 looks at the pending target
\* of the addressed channel alone)
move_to_encoder_valueAllAxes(m, i, encoder_value, block) ==
    LET idle == Then(Then(finish_move(m, 0), LAMBDA a : finish_move(a, 1)),
                     LAMBDA a : finish_move(a, 2))
        sent == Then(idle, LAMBDA a : send_command(a, i, "move", encoder_value))
        pending == Then(sent,
                     LAMBDA a : {[a EXCEPT !.pend[i] = Some(encoder_value)]})
    IN  IF block THEN Then(pending, LAMBDA a : finish_move(a, i)) ELSE pending

\* _move_to_encoder_value
move_to_encoder_value(m, i, encoder_value, block) ==
    LET sent == Then(finish_move(m, i),
                     LAMBDA a : send_command(a, i, "move", encoder_value))
        pending == Then(sent,
                     LAMBDA a : {[a EXCEPT !.pend[i] = Some(encoder_value)]})
    IN  IF block THEN Then(pending, LAMBDA a : finish_move(a, i)) ELSE pending

\* ------------------------------------------------------------------------
\* Motion: legalize_move_um, _check_min_motion, move_um

\* the bound legalize_move_um uses: the scan point if it is truthy, else the
\* stage limit; indexing a scan attribute that is a float raises TypeError
ScanOrLimit(scan, limit, i) ==
    IF Truthy(scan.at[i]) THEN Val(scan.at[i]) ELSE Val(limit[i])

\* legalize_move_um without its boundary assert (C1 holds because of the assert)
WithinLimitsMutant(i, lower_limit_um, target_move_um, upper_limit_um) == TRUE

\* the boundary assert of legalize_move_um (both chained comparisons)
WithinLimits(i, lower_limit_um, target_move_um, upper_limit_um) ==
    IF reverse[i]
    THEN lower_limit_um >= target_move_um /\ target_move_um >= upper_limit_um
    ELSE lower_limit_um <= target_move_um /\ target_move_um <= upper_limit_um

\* a reference that ignores the pending target (C9 holds on a Moving axis
\* because the pending target is the reference)
reference_encoderMutant(m, i) == Val(m.cur[i])

\* the reference _check_min_motion and legalize_move_um take: the pending
\* value if it is truthy, else the current value
reference_encoder(m, i) ==
    IF Truthy(m.pend[i]) THEN Val(m.pend[i]) ELSE Val(m.cur[i])

\* the elif of _check_min_motion: the move is too small to be made directly
needs_nudge(target_encoder_value, ref) ==
    Abs(target_encoder_value - ref) <= min_encoder_motion

\* legalize_move_um ends with a value that move_um's `if not legal_move_um`
\* takes as a reason to move
wants_move(legal_move_um) == Truthy(legal_move_um)

\* a base that an absolute request adds as well (C26 holds because only a
\* relative request adds the reference)
relative_baseMutant(relative, ref) == ref

\* what legalize_move_um adds to the encoder value of the request: the
\* reference if the request is relative, nothing if it is absolute
relative_base(relative, ref) == IF relative THEN ref ELSE 0

RECURSIVE move_um(_, _, _, _, _, _)

\* legalize_move_um with _check_min_motion inlined; the legalized value (or
\* None) is left in ret.  depth is 0 for the caller's request, 1 for the nudge.
legalize_move_um(m, i, um, relative, depth) ==
    IF stages[i] = None THEN {Fail(m, "TypeError")}
    ELSE
    LET ref == reference_encoder(m, i)
        target_encoder_value ==
            encoder_value_from_um(i, um) + relative_base(relative, ref)
        m0 == IF depth = 0
              THEN [m EXCEPT !.target = Some(target_encoder_value), !.ref = Some(ref)]
              ELSE m
        checked ==
            IF target_encoder_value = ref THEN {[m0 EXCEPT !.ret = None]}
            ELSE IF needs_nudge(target_encoder_value, ref)
            THEN move_um([m0 EXCEPT !.nudges = @ + 1], i, NudgeUnits, TRUE, TRUE,
                         depth + 1)
            ELSE {m0}
        bounds(a) ==
            LET target_move_um == um_from_encoder_value(i, target_encoder_value)
            IN  IF ~a.low.list \/ ~a.high.list THEN {Fail(a, "TypeError")}
                ELSE IF WithinLimits(i, ScanOrLimit(a.low, stage_lower_limit_um, i),
                                     target_move_um,
                                     ScanOrLimit(a.high, stage_upper_limit_um, i))
                THEN {[a EXCEPT !.ret = Some(target_move_um)]}
                ELSE {Fail(a, "OutOfRange")}
    IN  IF target_encoder_value = ref THEN checked
        ELSE Then(checked, bounds)

\* a position query that refreshes the cached encoder with what it read
\* (C38 holds because get_position_um assigns no attribute)
get_position_umCaching(m, i) ==
    Then(get_encoder_value(m, i, PositionReads(m, i)),
         LAMBDA a : {[a EXCEPT !.ret = Some(um_from_encoder_value(i, a.rd)),
                               !.cur[i] = Some(a.rd)]})

\* get_position_um: one query, the answer converted
get_position_um(m, i) ==
    Then(get_encoder_value(m, i, PositionReads(m, i)),
         LAMBDA a : {[a EXCEPT !.ret = Some(um_from_encoder_value(i, a.rd))]})

move_um(m, i, um, relative, block, depth) ==
    LET act(a) ==
            IF ~wants_move(a.ret)
            THEN IF verbose
                 THEN Then(get_position_um(a, i), LAMBDA b : {[b EXCEPT !.ret = None]})
                 ELSE {[a EXCEPT !.ret = None]}
            ELSE LET legal_move_um == a.ret
                     encoder_value == encoder_value_from_um(i, Val(legal_move_um))
                     moved == move_to_encoder_value(a, i, encoder_value, block)
                     finished == IF block
                                 THEN Then(moved, LAMBDA b : finish_move(b, i))
                                 ELSE moved
                 IN  Then(finished, LAMBDA b : {[b EXCEPT !.ret = legal_move_um]})
    IN  Then(legalize_move_um(m, i, um, relative, depth), act)

\* move_zero
move_zero(m, i, block) == move_um(m, i, 0, FALSE, block, 0)

\* retract: an absolute blocking move to retract point * reverse factor
retract(m, i) ==
    IF ~m.retr.list \/ m.retr.at[i] = None THEN {Fail(m, "TypeError")}
    ELSE move_um(m, i, Val(m.retr.at[i]) * reverse_factors(i), FALSE, TRUE, 0)

\* ------------------------------------------------------------------------
\* Limits and retract point

\* the stage-limit assert of set_stage_limit_um
WithinStageLimits(i, target_limit_um) ==
    IF reverse[i]
    THEN Val(stage_lower_limit_um[i]) >= target_limit_um
         /\ target_limit_um >= Val(stage_upper_limit_um[i])
    ELSE Val(stage_lower_limit_um[i]) <= target_limit_um
         /\ target_limit_um <= Val(stage_upper_limit_um[i])

\* set_stage_limit_um; limit_um is None when the caller omits it
set_stage_limit_um(m, i, lower_limit, limit_um) ==
    LET resolved == IF Truthy(limit_um) THEN {[m EXCEPT !.ret = limit_um]}
                    ELSE get_position_um(m, i)
        store(a) ==
            LET target_limit_um == Val(a.ret)
            IN  IF stages[i] = None THEN {Fail(a, "TypeError")}
                ELSE IF ~WithinStageLimits(i, target_limit_um)
                THEN {Fail(a, "OutOfRange")}
                ELSE IF lower_limit
                THEN {[a EXCEPT !.low = Float(target_limit_um)]}
                ELSE \* the retract comparison is made on the attributes
                     \* themselves: a list against a float raises TypeError,
                     \* and the tightening call indexes the float just stored
                     LET b == [a EXCEPT !.high = Float(target_limit_um)]
                         tighten == IF reverse[i]
                                    THEN b.retr.val < target_limit_um
                                    ELSE b.retr.val > target_limit_um
                     IN  IF b.retr.list \/ tighten THEN {Fail(b, "TypeError")}
                         ELSE {b}
    IN  Then(resolved, store)

\* the scan-window assert of set_retract_point_um, as written in the source
WithinScanWindow(i, lowest, target_retract_um, highest) ==
    IF reverse[i]
    THEN lowest <= target_retract_um /\ target_retract_um <= highest
    ELSE lowest >= target_retract_um /\ target_retract_um >= highest

\* set_retract_point_um; retract_um_pos is None when the caller omits it
set_retract_point_um(m, i, retract_um_pos, relative) ==
    LET resolved ==
            IF Truthy(retract_um_pos)
            THEN IF relative
                 THEN Then(get_position_um(m, i),
                           LAMBDA a : {[a EXCEPT !.ret =
                                           Some(Val(retract_um_pos) + Val(a.ret))]})
                 ELSE {[m EXCEPT !.ret = retract_um_pos]}
            ELSE get_position_um(m, i)
        store(a) ==
            LET target_retract_um == Val(a.ret)
            IN  IF ~a.low.list \/ a.low.at[i] = None THEN {Fail(a, "TypeError")}
                ELSE IF reverse[i]
                THEN IF Val(a.low.at[i]) <= target_retract_um
                     THEN IF ~a.high.list THEN {Fail(a, "TypeError")}
                          ELSE IF WithinScanWindow(i, Val(a.low.at[i]), target_retract_um,
                                                   Val(a.high.at[i]))
                          THEN {[a EXCEPT !.retr = Float(target_retract_um)]}
                          ELSE {Fail(a, "OutOfRange")}
                     ELSE {Fail(a, "OutOfRange")}
                ELSE IF Val(a.low.at[i]) >= target_retract_um
                     THEN IF ~a.high.list THEN {Fail(a, "TypeError")}
                          ELSE IF WithinScanWindow(i, Val(a.low.at[i]), target_retract_um,
                                                   Val(a.high.at[i]))
                          THEN {[a EXCEPT !.retr = Float(target_retract_um)]}
                          \* the assert message reads self._stage, which does not exist
                          ELSE {Fail(a, "AttributeError")}
                     ELSE {Fail(a, "AttributeError")}
    IN  Then(resolved, store)

\* ------------------------------------------------------------------------
\* Encoder zeroing, construction

\* _set_encoder_value_to_zero up to its loop: the position query of verbose
\* mode, then the zero-encoder frame
zero_written(m, i) ==
    LET before == IF verbose THEN get_encoder_value(m, i, PositionReads(m, i)) ELSE {m}
    IN  Then(before, LAMBDA a : send_command(a, i, "zero", 0))

\* a zeroing loop that gives up once a resolve would have timed out (C35
\* holds because the loop of line 274 has no deadline)
zero_wait_overDeadline(n, v) == v = 0 \/ n > ReadsUntilTimeout(0, 0, 1)

\* the exit test of the loop of _set_encoder_value_to_zero, at its n-th read
zero_wait_over(n, v) == v = 0

\* one turn of that loop, the device answering v to the n-th query: the loop
\* breaks and current is set to 0, or the loop goes on ("running").  The wire
\* keeps one zero_wait entry, for the last of the n reads.
zero_poll(m, i, v, n) ==
    IF zero_wait_over(n, v)
    THEN [m EXCEPT !.wire = Append(@, Rd("zero_wait", i, v, n, "reached")),
                   !.rd = Rd("zero_wait", i, v, n, "reached").enc,
                   !.cur[i] = Some(0),
                   !.err = "none"]
    ELSE [m EXCEPT !.wire = Append(@, Rd("zero_wait", i, v, n, "waiting")),
                   !.rd = Rd("zero_wait", i, v, n, "waiting").enc,
                   !.err = "running"]

\* _set_encoder_value_to_zero, when its loop ends: the device reports 0 at
\* the 1st .. MaxReachReads-th read, or a read fails
set_encoder_value_to_zero(m, i) ==
    LET zeroed == zero_written(m, i)
        wait(a) ==
            {[a EXCEPT !.wire = Append(@, Rd("zero_wait", i, 0, n, "reached")),
                       !.rd = 0, !.cur[i] = Some(0)] : n \in 1..MaxReachReads}
            \cup {failed_read(a, i, "zero_wait", n, f)
                    : f \in PollFaults, n \in 1..MaxReachReads}
    IN  Then(zeroed, wait)

\* a close that waits for the axes that are Moving (C23 holds because close
\* only releases the port)
closeMutant(m) ==
    Then(Then(finish_move(m, 0), LAMBDA a : finish_move(a, 1)),
         LAMBDA a : finish_move(a, 2))

\* close: port.close() releases the link (a second close finds it released
\* and does nothing); no frame is written and no attribute is assigned
close(m) == {m}

\* positions the device may be at when the controller is constructed
OpenReads(i) == {reverse_factors(i) * e : e \in {7, 59999, -59999}}

RECURSIVE init_channels(_, _)

\* a constructor that reads the position of every channel, stage or no stage
\* (C22 holds because the loop of __init__ skips the channels with no stage)
init_channelsAll(m, i) ==
    IF i \notin Index THEN {m}
    ELSE Then(Then(get_encoder_valueMutant(m, i, OpenReads(i)),
                   LAMBDA a : {[a EXCEPT !.cur[i] = Some(a.rd)]}),
              LAMBDA a : init_channels(a, i + 1))

\* the loop of __init__ over the channels, from channel index i on
init_channels(m, i) ==
    IF i \notin Index THEN {m}
    ELSE IF stages[i] = None THEN init_channels(m, i + 1)
    ELSE Then(Then(get_encoder_value(m, i, OpenReads(i)),
                   LAMBDA a : {[a EXCEPT !.cur[i] = Some(a.rd)]}),
              LAMBDA a : init_channels(a, i + 1))

\* the limits __init__ derives from supported_stages and reverse
InitUpperLimit(i) ==
    IF stages[i] = None THEN None ELSE Some(ZFM2020LimitUnits * reverse_factors(i))
InitLowerLimit(i) ==
    IF stages[i] = None THEN None ELSE Some(-ZFM2020LimitUnits * reverse_factors(i))
InitRetractPoint(i) ==
    IF stages[i] = None THEN None
    ELSE Some(Val(InitUpperLimit(i)) - UnitsPerCount * reverse_factors(i))

\* ------------------------------------------------------------------------
\* The explored inputs

Steps(k) == k * UnitsPerCount
\* 1000 um = 4724.408... conversion steps, in units
ThousandUm == Steps(4724) + 409

\* absolute move requests (um, in units): zero; 2 and 13 steps (5 and 6
\* counts from the construction position 7); 19.5 steps (19 is a lossy
\* encoder); 9690 steps (a lossy encoder whose round trip loses more than a
\* step); 59995 steps (4 counts from the construction position 59999);
\* the upper limit + 1 conversion step; 1000 um (4724.409 steps)
AbsoluteRequests ==
    {0, Steps(2), Steps(13), Steps(19) + 500, Steps(9690), Steps(59995),
     ZFM2020LimitUnits + UnitsPerCount, ThousandUm}
\* relative move requests (6 steps: to 19 from the target 13 of a move)
RelativeRequests == {0, Steps(-1), Steps(6), Steps(12)}
\* targets (in the axis direction) a relative request is explored for: one
\* count beyond the travel limit, and 19 (a lossy encoder)
RelativeTargets == {-60000, 19}

MoveRequests(i) ==
    IF stages[i] = None \/ current_encoder_value[i] = None
    THEN {[um |-> Steps(6), relative |-> FALSE]}
    ELSE {[um |-> u, relative |-> FALSE] : u \in AbsoluteRequests}
         \cup {r \in {[um |-> u, relative |-> TRUE] : u \in RelativeRequests} :
                  \/ r.um = 0
                  \/ reverse_factors(i)
                       * (encoder_value_from_um(i, r.um) + reference_encoder(Machine, i))
                     \in RelativeTargets}

\* scan limits and retract points a caller gives: omitted, 0, 100 steps, and
\* one conversion step beyond the travel limit
LimitValues == {None, Some(0), Some(Steps(100)), Some(ZFM2020LimitUnits + UnitsPerCount)}

\* a bound channel is at rest where construction found it
AtConstructionPosition(i) ==
    /\ current_encoder_value[i] # None
    /\ Val(current_encoder_value[i]) \in OpenReads(i)
    /\ pending_encoder_value[i] = None

\* limit and retract-point calls are explored on a bound channel at rest where
\* construction found it; calls on a channel with no stage are explored while
\* no channel has a pending move
LimitRequests(i) ==
    IF stages[i] = None THEN {None, Some(Steps(100))}
    ELSE IF AtConstructionPosition(i) THEN LimitValues
    ELSE {}
Explored(channel) ==
    \/ stages[internal_channel(channel)] # None
    \/ \A i \in Index : pending_encoder_value[i] = None

\* ------------------------------------------------------------------------
\* State and actions

NoCall ==
    [op |-> "none", channel |-> 0, um |-> None, relative |-> FALSE, block |-> FALSE,
     lower |-> FALSE, err |-> "none", ret |-> None, wire |-> <<>>,
     pre_cur |-> [i \in Index |-> None], pre_pend |-> [i \in Index |-> None],
     pre_out |-> [i \in Index |-> None],
     pre_low |-> List([i \in Index |-> None]),
     pre_high |-> List([i \in Index |-> None]),
     pre_retr |-> List([i \in Index |-> None]),
     pre_phase |-> "none",
     target |-> None, ref |-> None, nudges |-> 0]

\* the record of a call that ran on Machine and ended as m
Called(op, channel, um, relative, block, lower, m) ==
    [op |-> op, channel |-> channel, um |-> um, relative |-> relative,
     block |-> block, lower |-> lower, err |-> m.err, ret |-> IF Ok(m) THEN m.ret ELSE None,
     wire |-> m.wire,
     pre_cur |-> current_encoder_value, pre_pend |-> pending_encoder_value,
     pre_out |-> outstanding,
     pre_low |-> stage_lowest_scan_point_um,
     pre_high |-> stage_highest_scan_point_um,
     pre_retr |-> stage_retract_point_um,
     pre_phase |-> phase,
     target |-> m.target, ref |-> m.ref, nudges |-> m.nudges]

\* the controller's state after a call that ended as m
Commit(m) ==
    /\ current_encoder_value' = m.cur
    /\ pending_encoder_value' = m.pend
    /\ stage_lowest_scan_point_um' = m.low
    /\ stage_highest_scan_point_um' = m.high
    /\ stage_retract_point_um' = m.retr
    /\ outstanding' = m.out
    /\ UNCHANGED <<stages, reverse, verbose, stage_upper_limit_um, stage_lower_limit_um>>

\* the constructor's arguments explored: channel 1 bound, not reversed, with
\* the default verbose=True; channel 2 bound, reversed, verbose=False
Configs ==
    {[stages |-> [i \in Index |-> IF i = 0 THEN Some("ZFM2020") ELSE None],
      reverse |-> [i \in Index |-> FALSE], verbose |-> TRUE],
     [stages |-> [i \in Index |-> IF i = 1 THEN Some("ZFM2020") ELSE None],
      reverse |-> [i \in Index |-> i = 1], verbose |-> FALSE]}

Init ==
    /\ phase = "new"
    /\ \E c \in Configs : stages = c.stages /\ reverse = c.reverse /\ verbose = c.verbose
    /\ current_encoder_value = [i \in Index |-> None]
    /\ pending_encoder_value = [i \in Index |-> None]
    /\ stage_upper_limit_um = [i \in Index |-> None]
    /\ stage_lower_limit_um = [i \in Index |-> None]
    /\ stage_lowest_scan_point_um = List([i \in Index |-> None])
    /\ stage_highest_scan_point_um = List([i \in Index |-> None])
    /\ stage_retract_point_um = List([i \in Index |-> None])
    /\ outstanding = [i \in Index |-> None]
    /\ call = NoCall

\* __init__: the port is open, the limits are derived, one read per bound channel
Open ==
    /\ phase = "new"
    /\ call = NoCall
    /\ \E m \in init_channels(
                  [Machine EXCEPT !.low = List([i \in Index |-> InitLowerLimit(i)]),
                                  !.high = List([i \in Index |-> InitUpperLimit(i)]),
                                  !.retr = List([i \in Index |-> InitRetractPoint(i)])], 0) :
          /\ phase' = IF Ok(m) THEN "open" ELSE "failed"
          /\ current_encoder_value' = m.cur
          /\ pending_encoder_value' = m.pend
          /\ stage_lowest_scan_point_um' = m.low
          /\ stage_highest_scan_point_um' = m.high
          /\ stage_retract_point_um' = m.retr
          /\ stage_upper_limit_um' = [i \in Index |-> InitUpperLimit(i)]
          /\ stage_lower_limit_um' = [i \in Index |-> InitLowerLimit(i)]
          /\ outstanding' = m.out
          /\ call' = Called("open", 0, None, FALSE, FALSE, FALSE, m)
          /\ UNCHANGED <<stages, reverse, verbose>>

\* a call can be made once the constructor has returned and the previous call
\* has returned to its caller; no call but close is made on a closed controller
Usable == phase = "open" /\ call = NoCall

GetPositionUm(channel) ==
    /\ Usable
    /\ \E m \in get_position_um(Machine, internal_channel(channel)) :
          /\ Commit(m)
          /\ call' = Called("get_position_um", channel, None, FALSE, FALSE, FALSE, m)
          /\ UNCHANGED phase

MoveUm(channel, r, block) ==
    /\ Usable
    /\ \E m \in move_um(Machine, internal_channel(channel), r.um, r.relative, block, 0) :
          /\ Commit(m)
          /\ call' = Called("move_um", channel, Some(r.um), r.relative, block, FALSE, m)
          /\ UNCHANGED phase

MoveZero(channel, block) ==
    /\ Usable
    /\ \E m \in move_zero(Machine, internal_channel(channel), block) :
          /\ Commit(m)
          /\ call' = Called("move_zero", channel, None, FALSE, block, FALSE, m)
          /\ UNCHANGED phase

Retract(channel) ==
    /\ Usable
    /\ \E m \in retract(Machine, internal_channel(channel)) :
          /\ Commit(m)
          /\ call' = Called("retract", channel, None, FALSE, TRUE, FALSE, m)
          /\ UNCHANGED phase

\* resolve_move: _finish_move called by the user
FinishMove(channel) ==
    /\ Usable
    /\ \E m \in finish_move(Machine, internal_channel(channel)) :
          /\ Commit(m)
          /\ call' = Called("finish_move", channel, None, FALSE, FALSE, FALSE, m)
          /\ UNCHANGED phase

SetStageLimitUm(channel, lower_limit, limit_um) ==
    /\ Usable
    /\ \E m \in set_stage_limit_um(Machine, internal_channel(channel), lower_limit, limit_um) :
          /\ Commit(m)
          /\ call' = Called("set_stage_limit_um", channel, limit_um, FALSE, FALSE,
                            lower_limit, m)
          /\ UNCHANGED phase

SetRetractPointUm(channel, retract_um_pos, relative) ==
    /\ Usable
    /\ \E m \in set_retract_point_um(Machine, internal_channel(channel), retract_um_pos,
                                     relative) :
          /\ Commit(m)
          /\ call' = Called("set_retract_point_um", channel, retract_um_pos, relative,
                            FALSE, FALSE, m)
          /\ UNCHANGED phase

SetEncoderValueToZero(channel) ==
    /\ Usable
    /\ \E m \in set_encoder_value_to_zero(Machine, internal_channel(channel)) :
          /\ Commit(m)
          /\ call' = Called("set_encoder_value_to_zero", channel, None, FALSE, FALSE,
                            FALSE, m)
          /\ UNCHANGED phase

\* close, on an open controller or on one that is closed already
Close ==
    /\ phase \in {"open", "closed"}
    /\ call = NoCall
    /\ \E m \in close(Machine) :
          /\ Commit(m)
          /\ call' = Called("close", 0, None, FALSE, FALSE, FALSE, m)
          /\ phase' = "closed"

\* the call returns to its caller: its record is dropped
Return ==
    /\ call # NoCall
    /\ call.err # "running"
    /\ call' = NoCall
    /\ UNCHANGED <<phase, stages, reverse, verbose, current_encoder_value,
                   pending_encoder_value, stage_upper_limit_um, stage_lower_limit_um,
                   stage_lowest_scan_point_um, stage_highest_scan_point_um,
                   stage_retract_point_um, outstanding>>

Next ==
    \/ Open
    \/ Return
    \/ \E channel \in channels : Explored(channel) /\ GetPositionUm(channel)
    \/ \E channel \in channels, block \in BOOLEAN :
          \E r \in MoveRequests(internal_channel(channel)) :
             Explored(channel) /\ MoveUm(channel, r, block)
    \/ \E channel \in channels, block \in BOOLEAN :
          Explored(channel) /\ MoveZero(channel, block)
    \/ \E channel \in channels : Explored(channel) /\ Retract(channel)
    \/ \E channel \in channels : Explored(channel) /\ FinishMove(channel)
    \/ \E channel \in channels, lower_limit \in BOOLEAN :
          \E limit_um \in LimitRequests(internal_channel(channel)) :
             Explored(channel) /\ SetStageLimitUm(channel, lower_limit, limit_um)
    \/ \E channel \in channels, relative \in BOOLEAN :
          \E retract_um_pos \in LimitRequests(internal_channel(channel)) :
             Explored(channel) /\ SetRetractPointUm(channel, retract_um_pos, relative)
    \/ \E channel \in channels : Explored(channel) /\ SetEncoderValueToZero(channel)
    \/ Close

Spec == Init /\ [][Next]_vars

\* ------------------------------------------------------------------------
\* The controller with two stages: channels 1 and 2 bound, channel 2 reversed,
\* channel 3 with no stage, verbose=False.  The calls are the ones that can
\* tell one channel from another: position queries, moves (blocking or not),
\* explicit resolves, scan-limit and retract-point calls, close.

TwoAxes ==
    [stages |-> [i \in Index |-> IF i \in {0, 1} THEN Some("ZFM2020") ELSE None],
     reverse |-> [i \in Index |-> i = 1],
     verbose |-> FALSE]

InitTwoAxes ==
    /\ phase = "new"
    /\ stages = TwoAxes.stages /\ reverse = TwoAxes.reverse /\ verbose = TwoAxes.verbose
    /\ current_encoder_value = [i \in Index |-> None]
    /\ pending_encoder_value = [i \in Index |-> None]
    /\ stage_upper_limit_um = [i \in Index |-> None]
    /\ stage_lower_limit_um = [i \in Index |-> None]
    /\ stage_lowest_scan_point_um = List([i \in Index |-> None])
    /\ stage_highest_scan_point_um = List([i \in Index |-> None])
    /\ stage_retract_point_um = List([i \in Index |-> None])
    /\ outstanding = [i \in Index |-> None]
    /\ call = NoCall

\* the move request: absolute, to 9 steps (2 counts from the construction
\* position 7: a nudge first; far from the other construction positions: a
\* direct move)
TwoAxesRequests == {[um |-> Steps(9), relative |-> FALSE]}
\* the scan limit and retract point a caller gives: 100 steps
TwoAxesLimits(i) == LimitRequests(i) \cap {Some(Steps(100))}

NextTwoAxes ==
    \/ Open
    \/ Return
    \/ \E channel \in channels : GetPositionUm(channel)
    \/ \E channel \in channels, block \in BOOLEAN, r \in TwoAxesRequests :
          MoveUm(channel, r, block)
    \/ \E channel \in channels : FinishMove(channel)
    \/ \E channel \in channels, lower_limit \in BOOLEAN :
          \E limit_um \in TwoAxesLimits(internal_channel(channel)) :
             SetStageLimitUm(channel, lower_limit, limit_um)
    \/ \E channel \in channels :
          \E retract_um_pos \in TwoAxesLimits(internal_channel(channel)) :
             SetRetractPointUm(channel, retract_um_pos, FALSE)
    \/ Close

SpecTwoAxes == InitTwoAxes /\ [][NextTwoAxes]_vars

\* ------------------------------------------------------------------------
\* Encoder zeroing step by step: the loop of _set_encoder_value_to_zero is
\* followed read by read, against a device that may go on reporting its old
\* position

\* reads of the zeroing loop followed while the device does not report 0: one
\* more than the milliseconds of the deadline of _finish_move, a query
\* taking at least 1 ms
ZeroPollsExplored == TimeoutMs + 1
\* the reads at which the device is seen to report 0
ZeroReportedAt == (1..MaxReachReads) \cup {ZeroPollsExplored}
\* what a device that has not zeroed its encoder yet reports
StaleRead(i) ==
    IF current_encoder_value[i] # None /\ Val(current_encoder_value[i]) # 0
    THEN Val(current_encoder_value[i])
    ELSE OutOfTravel(i)

Zeroing == call.op = "set_encoder_value_to_zero" /\ call.err = "running"
\* the reads the running loop has made, and the frames before its last read
ZeroPolls == IF call.wire[Len(call.wire)].k = "zero_wait"
             THEN call.wire[Len(call.wire)].n ELSE 0
ZeroPrefix == IF ZeroPolls = 0 THEN call.wire
              ELSE SubSeq(call.wire, 1, Len(call.wire) - 1)

\* _set_encoder_value_to_zero is called: it runs up to its loop
ZeroStart(channel) ==
    /\ Usable
    /\ \E m \in zero_written(Machine, internal_channel(channel)) :
          /\ Commit(m)
          /\ call' = Called("set_encoder_value_to_zero", channel, None, FALSE, FALSE,
                            FALSE, IF Ok(m) THEN [m EXCEPT !.err = "running"] ELSE m)
          /\ UNCHANGED phase

\* one more turn of the loop
ZeroPoll ==
    /\ Zeroing
    /\ LET i == internal_channel(call.channel)
           n == ZeroPolls + 1
           m == [Machine EXCEPT !.wire = ZeroPrefix]
       IN  \E a \in {zero_poll(m, i, v, n)
                        : v \in (IF n \in ZeroReportedAt THEN {0} ELSE {})
                              \cup (IF n < ZeroPollsExplored THEN {StaleRead(i)} ELSE {})}
                    \cup {failed_read(m, i, "zero_wait", n, f)
                        : f \in (IF n \in ZeroReportedAt THEN PollFaults ELSE {})} :
              /\ Commit(a)
              /\ call' = [call EXCEPT !.wire = a.wire, !.err = a.err]
              /\ UNCHANGED phase

NextZeroing ==
    \/ Open
    \/ Return
    \/ \E channel \in channels, r \in TwoAxesRequests :
          Explored(channel) /\ MoveUm(channel, r, FALSE)
    \/ \E channel \in channels : Explored(channel) /\ ZeroStart(channel)
    \/ ZeroPoll

SpecZeroing == Init /\ [][NextZeroing]_vars

\* ------------------------------------------------------------------------
\* Properties.  They are stated on the record of the last call (its input,
\* the frames it wrote, how it ended, the state it started from) and on the
\* controller's state after it.

\* the internal index the last call addressed
Ch == internal_channel(call.channel)
OnChannel == call.channel \in channels
MoveOps == {"move_um", "move_zero", "retract"}

Events == {call.wire[k] : k \in 1..Len(call.wire)}
MoveEvents == {e \in Events : e.k = "move"}
LastEvent == call.wire[Len(call.wire)]

\* the active bounds of a channel: a scan bound that is set, else the
\* physical travel limit
ActiveBound(scan, limit, i) ==
    IF ~scan.list THEN scan.val
    ELSE IF scan.at[i] # None /\ Val(scan.at[i]) # 0 THEN Val(scan.at[i])
    ELSE Val(limit[i])
InActiveBounds(i, um) ==
    LET lo == ActiveBound(stage_lowest_scan_point_um, stage_lower_limit_um, i)
        hi == ActiveBound(stage_highest_scan_point_um, stage_upper_limit_um, i)
    IN  IF reverse[i] THEN hi <= um /\ um <= lo ELSE lo <= um /\ um <= hi

\* the reference of the last call's request: the pending target if the axis
\* was Moving when the call was made, else the current encoder
RefBefore ==
    IF call.pre_pend[Ch] # None THEN Val(call.pre_pend[Ch]) ELSE Val(call.pre_cur[Ch])
\* the request of the last call was understood: it has a target encoder
HasTarget == OnChannel /\ call.op \in MoveOps /\ call.target # None
Delta == Abs(Val(call.target) - RefBefore)

\* C1: every move-to frame written (by move_um, by the minimum-motion nudge,
\* by move_zero or by retract) carries a target encoder whose micrometre value
\* lies within the active bounds of its channel: the scan bounds if set, else
\* the physical travel limits, with the direction flipped on a reversed axis.
C1_MoveFramesWithinBounds ==
    \A e \in MoveEvents :
        /\ stages[e.ch] # None
        /\ InActiveBounds(e.ch, um_from_encoder_value(e.ch, e.enc))

\* C1 witness: a call on the reversed axis that wrote the nudge's move-to
\* frame and then the frame of the request itself
C1_Witness ==
    /\ OnChannel /\ call.op = "move_um" /\ reverse[Ch]
    /\ call.nudges = 1 /\ call.err = "none"
    /\ Cardinality(MoveEvents) = 2

\* C2 (as claimed): for every channel the pending target is Some(t) exactly
\* when a move-to frame with target t has been written and no resolve has
\* completed since, also after a call that aborted with a protocol or link
\* error.
C2_PendingIffOutstanding ==
    \A i \in Index : pending_encoder_value[i] = outstanding[i]

\* C3 (as claimed): no move-to frame is written for a channel while an
\* earlier move-to frame of that channel is still unresolved.
C3_NeverPipelined ==
    \A e \in MoveEvents : e.note # "pipelined"

\* the polls of the last call that ended by timeout
TimeoutPolls == {e \in Events : e.k = "poll" /\ e.note = "timeout"}
PollsAtDeadline == TimeoutMs \div PollingWaitMs
\* times (ms) one position query may take, for which the loop is unrolled
PollDelaysChecked == {2, 10, 50}

\* C4: resolve_move on a Moving axis whose device never reports the target
\* ends after at most deadline / poll interval = 60 position queries plus one,
\* leaves the axis Idle, and writes no move-to frame.
C4_TimeoutBounded ==
    /\ \A e \in TimeoutPolls :
          /\ e.n >= 1 /\ e.n <= PollsAtDeadline + 1
          /\ \A d \in PollDelaysChecked :
                ReadsUntilTimeout(0, 1, d) <= PollsAtDeadline + 1
    /\ (OnChannel /\ call.op = "finish_move" /\ TimeoutPolls # {})
          => /\ call.err = "none"
             /\ pending_encoder_value[Ch] = None
             /\ outstanding[Ch] = None
             /\ MoveEvents = {}
             /\ Len(call.wire) = 1

\* C4 witness: an explicit resolve of a Moving axis that timed out
C4_Witness ==
    /\ OnChannel /\ call.op = "finish_move"
    /\ call.pre_pend[Ch] # None
    /\ TimeoutPolls # {}

\* the last call ended with a completed resolve: its last frame exchange is a
\* poll loop that broke on the target or on the deadline
EndsResolved ==
    /\ call.wire # <<>>
    /\ LastEvent.k = "poll"
    /\ LastEvent.note \in {"reached", "timeout"}
\* the pending target that resolve worked on: the target of the move-to frame
\* written just before it, else the target pending when the call was made
FormerPending ==
    IF Len(call.wire) > 1 /\ call.wire[Len(call.wire) - 1].k = "move"
    THEN Some(call.wire[Len(call.wire) - 1].enc)
    ELSE call.pre_pend[LastEvent.ch]

\* C5: when a resolve takes an axis from Moving to Idle, the pending target
\* becomes None and the current encoder becomes the value of the resolve's
\* last position query; unless the resolve timed out, that value is the
\* former pending target.
C5_ResolveRefreshes ==
    EndsResolved =>
        /\ FormerPending # None
        /\ pending_encoder_value[LastEvent.ch] = None
        /\ current_encoder_value[LastEvent.ch] = Some(LastEvent.enc)
        /\ (LastEvent.note = "reached" => LastEvent.enc = Val(FormerPending))

\* C5 witness: an explicit resolve of a Moving axis that saw its target
C5_Witness ==
    /\ OnChannel /\ call.op = "finish_move"
    /\ call.pre_pend[Ch] # None
    /\ EndsResolved /\ LastEvent.note = "reached"
    /\ current_encoder_value[Ch] # call.pre_cur[Ch]

LinkFaults == {"ProtocolMismatch", "LinkDesync"}
ScanListsIntact ==
    stage_lowest_scan_point_um.list /\ stage_highest_scan_point_um.list
StateOfAxisUnchanged ==
    /\ current_encoder_value[Ch] = call.pre_cur[Ch]
    /\ pending_encoder_value[Ch] = call.pre_pend[Ch]

\* C6 (as claimed): a move_um request whose realized target lies outside the
\* active bounds fails with OutOfRange and leaves the current encoder and the
\* pending target of the axis as they were before the call.
C6_OutOfRangeLeavesState ==
    (/\ HasTarget /\ call.op = "move_um"
     /\ ScanListsIntact
     /\ ~InActiveBounds(Ch, um_from_encoder_value(Ch, Val(call.target)))
     /\ call.err \notin LinkFaults)
        => call.err = "OutOfRange" /\ StateOfAxisUnchanged

\* C7 (as claimed): a call of move_um, set_scan_limit or set_retract_point
\* that ends in a validation error has written no frame of any kind.
C7_ValidationBeforeWrite ==
    (/\ OnChannel
     /\ call.op \in {"move_um", "set_stage_limit_um", "set_retract_point_um"}
     /\ call.err \in {"OutOfRange", "ConfigurationError"})
        => call.wire = <<>>

\* C8 (as claimed): a requested move triggers the 10 um nudge if and only if
\* the distance d between its target encoder and the reference encoder
\* satisfies 0 < d < 5 counts; with d >= 5 there is no nudge.
C8_NudgeIffBelowThreshold ==
    HasTarget => (call.nudges > 0 <=> (0 < Delta /\ Delta < min_encoder_motion))

ZeroDelta == HasTarget /\ Val(call.target) = RefBefore

C10_ReturnsLegalizedAndMoves ==
    (/\ HasTarget /\ call.op = "move_um"
     /\ call.err = "none"
     /\ Val(call.target) # RefBefore)
        => /\ call.ret = Some(um_from_encoder_value(Ch, Val(call.target)))
           /\ \E e \in MoveEvents : e.ch = Ch /\ e.enc = Val(call.target)

\* the last call was made on an Idle axis, and every resolve in it saw its
\* target (the device reaches every commanded target)
IdleBefore == call.pre_pend[Ch] = None
AllTargetsReached ==
    \A e \in Events : e.k = "poll" => e.note = "reached"

\* C11 (as claimed): move_to_zero is an absolute move to 0: on an Idle axis
\* at an encoder e # 0, with a device that reaches every commanded target, a
\* blocking move_zero writes a move-to frame with target encoder 0 and returns
\* with the axis Idle and the current encoder 0.
C11_MoveZeroReachesZero ==
    (/\ OnChannel /\ call.op = "move_zero" /\ call.block
     /\ stages[Ch] # None
     /\ IdleBefore /\ call.pre_cur[Ch] # Some(0)
     /\ call.err = "none" /\ AllTargetsReached)
        => /\ \E e \in MoveEvents : e.ch = Ch /\ e.enc = 0
           /\ pending_encoder_value[Ch] = None
           /\ current_encoder_value[Ch] = Some(0)

\* the move-to frame of the request itself: the last one the call wrote
LastMoveIndex ==
    CHOOSE k \in 1..Len(call.wire) :
        /\ call.wire[k].k = "move"
        /\ \A j \in (k + 1)..Len(call.wire) : call.wire[j].k # "move"
LastMoveEvent == call.wire[LastMoveIndex]

\* C12 (as claimed): reversal symmetry: a relative move_um by d from encoder
\* e issues the target encoder e + k on a non-reversed axis and e - k on a
\* reversed axis, with the same k, the encoder count of d.
C12_ReversalSymmetry ==
    (/\ HasTarget /\ call.op = "move_um" /\ call.relative
     /\ call.err = "none" /\ MoveEvents # {})
        => LastMoveEvent.enc
              = RefBefore + reverse_factors(Ch) * FloatInt(Val(call.um))

\* C13 (as claimed): conversion round trip: for a micrometre value v in range,
\* on a reversed or a non-reversed axis, |um_from_encoder(encoder_from_um(v))
\* - v| is at most one conversion step.
C13_RoundTripWithinStep ==
    (/\ HasTarget /\ call.op = "move_um" /\ ~call.relative
     /\ Abs(Val(call.um)) <= ZFM2020LimitUnits)
        => ~round_trip_exceeds_step(Ch, Val(call.um))

\* what a scan or retract attribute holds for a channel
AttrOf(attr, i) == IF attr.list THEN attr.at[i] ELSE Some(attr.val)
Bound == OnChannel /\ stages[Ch] # None

\* a <= b <= c <= d in the direction of the axis
Ordered4(i, a, b, c, d) ==
    IF reverse[i] THEN a >= b /\ b >= c /\ c >= d
    ELSE a <= b /\ b <= c /\ c <= d

\* C14 (as claimed): limit containment: after every set_scan_limit call that
\* did not fail, lower_limit_um <= scan_lowest_um <= scan_highest_um <=
\* upper_limit_um on the configured axis (reversed on a reversed axis).
C14_LimitContainment ==
    (Bound /\ call.op = "set_stage_limit_um" /\ call.err = "none")
        => /\ AttrOf(stage_lowest_scan_point_um, Ch) # None
           /\ AttrOf(stage_highest_scan_point_um, Ch) # None
           /\ Ordered4(Ch, Val(stage_lower_limit_um[Ch]),
                       Val(AttrOf(stage_lowest_scan_point_um, Ch)),
                       Val(AttrOf(stage_highest_scan_point_um, Ch)),
                       Val(stage_upper_limit_um[Ch]))

\* the current encoders and pending targets the frames 1..k of the last call
\* account for, from the state the call started in: a move-to frame sets the
\* pending target, a completed resolve refreshes current and clears pending,
\* a completed zeroing sets current to 0, a construction read sets current
RECURSIVE Replay(_)
Replay(k) ==
    IF k = 0 THEN [cur |-> call.pre_cur, pend |-> call.pre_pend]
    ELSE LET r == Replay(k - 1)
             e == call.wire[k]
             done == e.note \in {"reached", "timeout"}
         IN  IF e.k = "move" /\ (k < Len(call.wire) \/ call.err = "none")
             THEN [r EXCEPT !.pend[e.ch] = Some(e.enc)]
             ELSE IF e.k = "poll" /\ done
             THEN [r EXCEPT !.cur[e.ch] = Some(e.enc), !.pend[e.ch] = None]
             ELSE IF e.k = "zero_wait" /\ done
             THEN [r EXCEPT !.cur[e.ch] = Some(0)]
             ELSE IF e.k = "query" /\ e.note = "" /\ call.op = "open"
             THEN [r EXCEPT !.cur[e.ch] = Some(e.enc)]
             ELSE r

\* C15: a position response whose echoed channel byte differs from the
\* requested one fails the reading operation with ProtocolMismatch, and that
\* read changes neither the current encoder nor the pending target of any
\* channel, in get_position_um, at construction and inside a poll loop: the
\* state is the one the frames before the failed read account for.
C15_MismatchStoresNothing ==
    call.err = "ProtocolMismatch" =>
        /\ call.wire # <<>>
        /\ LastEvent.note = "ProtocolMismatch"
        /\ LastEvent.k \in {"query", "poll", "zero_wait"}
        /\ current_encoder_value = Replay(Len(call.wire) - 1).cur
        /\ pending_encoder_value = Replay(Len(call.wire) - 1).pend
        /\ (call.op \in {"get_position_um", "finish_move", "open"}
               => /\ current_encoder_value = call.pre_cur
                  /\ pending_encoder_value = call.pre_pend)

\* C15 witness: an explicit resolve of a Moving axis whose poll got a
\* response with the wrong channel byte
C15_Witness ==
    /\ OnChannel /\ call.op = "finish_move"
    /\ call.pre_pend[Ch] # None
    /\ call.err = "ProtocolMismatch"
    /\ LastEvent.k = "poll"

\* everything the controller keeps is as it was when the last call was made
NothingChanged ==
    /\ current_encoder_value = call.pre_cur
    /\ pending_encoder_value = call.pre_pend
    /\ outstanding = call.pre_out
    /\ stage_lowest_scan_point_um = call.pre_low
    /\ stage_highest_scan_point_um = call.pre_high
    /\ stage_retract_point_um = call.pre_retr

MotionAndLimitOps ==
    {"get_position_um", "move_um", "move_zero", "retract",
     "set_stage_limit_um", "set_retract_point_um"}

\* C16: a channel with no stage bound rejects every motion and limit
\* operation: the call ends in an error, writes no byte, and leaves all state
\* unchanged.
C16_UnboundChannelRejects ==
    (OnChannel /\ stages[Ch] = None /\ call.op \in MotionAndLimitOps)
        => /\ call.err # "none"
           /\ call.wire = <<>>
           /\ NothingChanged

\* C16 witness: a position query on a channel with no stage, rejected
C16_Witness ==
    /\ OnChannel /\ stages[Ch] = None
    /\ call.op = "get_position_um"
    /\ call.err = "ConfigurationError"

\* lo <= t <= hi in the direction of the axis
Between(i, lo, t, hi) ==
    IF reverse[i] THEN lo >= t /\ t >= hi ELSE lo <= t /\ t <= hi

\* the scan window of the addressed channel when the last call was made
ScanWindowIntactBefore ==
    /\ call.pre_low.list /\ call.pre_high.list
    /\ call.pre_low.at[Ch] # None /\ call.pre_high.at[Ch] # None

\* C17 (as claimed): set_retract_point accepts an explicit target (0
\* included) if and only if it lies within [scan_lowest_um, scan_highest_um]
\* of the channel, direction-aware; on acceptance it stores the target as the
\* channel's retract point and returns it, otherwise it fails with OutOfRange
\* and changes nothing.
C17_RetractPointAcceptedIffInWindow ==
    (/\ Bound /\ call.op = "set_retract_point_um"
     /\ ~call.relative /\ call.um # None
     /\ ScanWindowIntactBefore)
        => IF Between(Ch, Val(call.pre_low.at[Ch]), Val(call.um),
                      Val(call.pre_high.at[Ch]))
           THEN /\ call.err = "none"
                /\ call.ret = call.um
                /\ AttrOf(stage_retract_point_um, Ch) = call.um
           ELSE /\ call.err = "OutOfRange"
                /\ NothingChanged

\* C18 (as claimed): retract moves the axis to its stored retract point, on
\* reversed and non-reversed axes alike: with a device that reaches every
\* commanded target it writes a move-to frame whose target is the encoder
\* value of retract_um, blocks to completion, and returns with the axis Idle
\* and its position within one conversion step of retract_um.
C18_RetractReachesRetractPoint ==
    (/\ Bound /\ call.op = "retract"
     /\ call.err = "none" /\ AllTargetsReached
     /\ AttrOf(call.pre_retr, Ch) # None)
        => LET retract_um == Val(AttrOf(call.pre_retr, Ch))
           IN  /\ MoveEvents # {}
               /\ LastMoveEvent.ch = Ch
               /\ LastMoveEvent.enc = encoder_value_from_um(Ch, retract_um)
               /\ pending_encoder_value[Ch] = None
               /\ Abs(um_from_encoder_value(Ch, Val(current_encoder_value[Ch]))
                        - retract_um) <= UnitsPerCount

\* the scan bound the last set_stage_limit_um call selected
SelectedBound ==
    IF call.lower THEN stage_lowest_scan_point_um ELSE stage_highest_scan_point_um

\* C19 (as claimed): set_scan_limit with an explicit value v (0 included)
\* within the physical travel limits stores v as the selected bound of the
\* channel, returns v and completes without error, for the lower and for the
\* upper bound; with v outside the physical limits (direction-aware) it fails
\* with OutOfRange and changes no bound.
C19_ScanLimitStored ==
    (Bound /\ call.op = "set_stage_limit_um" /\ call.um # None)
        => IF Between(Ch, Val(stage_lower_limit_um[Ch]), Val(call.um),
                      Val(stage_upper_limit_um[Ch]))
           THEN /\ call.err = "none"
                /\ call.ret = call.um
                /\ AttrOf(SelectedBound, Ch) = call.um
           ELSE /\ call.err = "OutOfRange"
                /\ stage_lowest_scan_point_um = call.pre_low
                /\ stage_highest_scan_point_um = call.pre_high

PollEvents == {e \in Events : e.k = "poll"}
\* the last call is a move_um that issued a move and returned its legalized value
MovedOk == HasTarget /\ call.op = "move_um" /\ call.err = "none" /\ call.ret # None
PendingIsReturnedTarget ==
    pending_encoder_value[Ch] = Some(encoder_value_from_um(Ch, Val(call.ret)))

StoringRead(k, i) ==
    LET e == call.wire[k]
    IN  /\ e.ch = i
        /\ \/ e.k = "query" /\ e.note = "" /\ call.op = "open"
           \/ e.k = "poll" /\ e.note \in {"reached", "timeout"}
           \/ e.k = "zero_wait" /\ e.note = "reached"
StoringReads(i) == {k \in 1..Len(call.wire) : StoringRead(k, i)}
Max(S) == CHOOSE x \in S : \A y \in S : y <= x

\* C21: the current encoder is never inferred: after every call, the current
\* encoder of a channel is the value decoded from the last position response
\* of that channel which the call stored (at construction, at the end of a
\* resolve, at the end of encoder zeroing), and it is what it was before the
\* call if the call stored no such response; position queries, limit calls
\* and the writing of a move-to frame do not change it.
C21_CurrentOnlyFromReads ==
    call.op # "none" =>
        \A i \in Index :
            /\ StoringReads(i) = {}
                  => current_encoder_value[i] = call.pre_cur[i]
            /\ StoringReads(i) # {}
                  => current_encoder_value[i]
                        = Some(call.wire[Max(StoringReads(i))].enc)
            /\ call.op \in {"get_position_um", "set_stage_limit_um",
                            "set_retract_point_um", "close"}
                  => current_encoder_value[i] = call.pre_cur[i]

\* C21 witness: a move whose resolve timed out: the current encoder is the
\* position last read, not the target of the move
C21_Witness ==
    /\ OnChannel /\ call.op = "move_um" /\ call.block
    /\ call.err = "none" /\ Len(call.wire) >= 2
    /\ LastEvent.k = "poll" /\ LastEvent.note = "timeout"
    /\ current_encoder_value[Ch] = Some(LastEvent.enc)
    /\ call.wire[Len(call.wire) - 1].k = "move"
    /\ call.wire[Len(call.wire) - 1].enc # LastEvent.enc

\* the frame exchanges of the last call that address channel i
FramesOf(i) == {k \in 1..Len(call.wire) : call.wire[k].ch = i}

\* C22: construction seeds the state with reads only: the constructor writes
\* exactly one query-position frame per channel that has a stage and none for
\* a channel without one, writes no move-to and no zero-encoder frame, and
\* ends with every bound channel Idle and its current encoder equal to the
\* value read; a constructor that a link fault aborts has written nothing but
\* position queries either, at most one per bound channel.
C22_ConstructionReadsOnly ==
    call.op = "open" =>
        /\ \A e \in Events : e.k = "query" /\ stages[e.ch] # None
        /\ \A i \in Index : Cardinality(FramesOf(i)) <= 1
        /\ call.err = "none" =>
              /\ phase = "open"
              /\ \A i \in Index :
                    IF stages[i] = None
                    THEN FramesOf(i) = {} /\ current_encoder_value[i] = None
                    ELSE /\ Cardinality(FramesOf(i)) = 1
                         /\ \A k \in FramesOf(i) :
                               /\ call.wire[k].note = ""
                               /\ current_encoder_value[i] = Some(call.wire[k].enc)
                         /\ pending_encoder_value[i] = None

\* C22 witness: a controller with two stages and one empty channel has been
\* constructed: two position queries, two current encoders
C22_Witness ==
    /\ call.op = "open" /\ call.err = "none"
    /\ Len(call.wire) = 2
    /\ current_encoder_value[0] # None /\ current_encoder_value[1] # None
    /\ current_encoder_value[2] = None /\ stages[2] = None

\* C23: close is an explicit release that never waits: in any state, also
\* with one or more axes Moving, close writes no frame, performs no poll,
\* raises no error and leaves the pending target and the current encoder of
\* every channel (and every bound) as they were; a second close does the same.
C23_CloseNeverWaits ==
    call.op = "close" =>
        /\ call.wire = <<>>
        /\ call.err = "none"
        /\ NothingChanged
        /\ phase = "closed"
        /\ call.pre_phase \in {"open", "closed"}

\* C23 witness: a second close, made while both axes are still Moving
C23_Witness ==
    /\ call.op = "close" /\ call.pre_phase = "closed"
    /\ pending_encoder_value[0] # None /\ pending_encoder_value[1] # None
    /\ call.err = "none"

\* the realized target of the last call's request lies within the active bounds
TargetInBounds ==
    InActiveBounds(Ch, um_from_encoder_value(Ch, Val(call.target)))

\* C24 (as claimed): legalize_move fails with OutOfRange only if the realized
\* target lies outside the active bounds: a request whose realized target is
\* inside them is not rejected, also when it is a sub-threshold request made
\* within 10 um of a bound and a nudge comes first.
C24_OutOfRangeOnlyOutside ==
    (/\ HasTarget /\ call.op = "move_um"
     /\ ScanListsIntact
     /\ TargetInBounds)
        => call.err # "OutOfRange"

IsMove(e) == e.k = "move"
\* the move-to frames of the last call, in the order they were written
MoveFrames == SelectSeq(call.wire, IsMove)
\* the request of the last call is sub-threshold: 0 < delta < 5 counts
SubThreshold == 0 < Delta /\ Delta < min_encoder_motion
\* the encoder target of the nudge: the reference plus the encoder value of +10 um
NudgeTarget == RefBefore + encoder_value_from_um(Ch, NudgeUnits)

\* C25 (as claimed): nudge then original target: for a sub-threshold in-bounds
\* request on a device that reaches every commanded target, a blocking move_um
\* writes exactly two move-to frames, first the nudge (reference encoder plus
\* the encoder value of +10 um), which is resolved, then the original target
\* computed before the nudge, and returns with the current encoder equal to
\* the original target.
C25_NudgeThenTarget ==
    (/\ HasTarget /\ call.op = "move_um" /\ call.block
     /\ SubThreshold
     /\ ScanListsIntact /\ TargetInBounds
     /\ AllTargetsReached /\ call.err \notin LinkFaults)
        => /\ call.err = "none"
           /\ Len(MoveFrames) = 2
           /\ MoveFrames[1].enc = NudgeTarget
           /\ MoveFrames[2].enc = Val(call.target)
           /\ \E k \in 1..(Len(call.wire) - 2) :
                 /\ call.wire[k] = MoveFrames[1]
                 /\ call.wire[k + 1].k = "poll"
                 /\ call.wire[k + 1].note = "reached"
                 /\ call.wire[k + 2] = MoveFrames[2]
           /\ pending_encoder_value[Ch] = None
           /\ current_encoder_value[Ch] = call.target

\* C26: relative target base: the target encoder of a relative request is
\* the encoder value of the requested micrometres plus the pending target if
\* the axis is Moving, plus the current encoder if it is Idle; the target of
\* an absolute request is the encoder value of the request alone.  (The code
\* takes the pending target only if it is non-zero, and no axis ever has the
\* pending target 0: the second conjunct.)
C26_RelativeTargetBase ==
    /\ HasTarget =>
          LET requested ==
                  IF call.op = "move_um" THEN Val(call.um)
                  ELSE IF call.op = "move_zero" THEN 0
                  ELSE Val(AttrOf(call.pre_retr, Ch)) * reverse_factors(Ch)
              base ==
                  IF ~call.relative THEN 0
                  ELSE IF call.pre_pend[Ch] # None THEN Val(call.pre_pend[Ch])
                  ELSE Val(call.pre_cur[Ch])
          IN  Val(call.target) = encoder_value_from_um(Ch, requested) + base
    /\ \A i \in Index : pending_encoder_value[i] # Some(0)

\* C26 witness: a non-zero relative request made on a Moving axis whose
\* pending target differs from its current encoder
C26_Witness ==
    /\ HasTarget /\ call.op = "move_um" /\ call.relative
    /\ Val(call.um) # 0
    /\ call.pre_pend[Ch] # None
    /\ call.pre_pend[Ch] # call.pre_cur[Ch]
    /\ Val(call.target) = FloatInt(Val(call.um)) * reverse_factors(Ch)
                             + Val(call.pre_pend[Ch])
    /\ call.err = "none"

\* a scan-limit call has stored a lower bound before the last call was made
\* (the upper call never returns normally: C19)
ScanLimitSetBefore == ~call.pre_low.list
\* the realized target of the last call's request lies within the scan
\* bounds stored for its channel when the call was made
TargetInScanBounds ==
    Between(Ch, Val(AttrOf(call.pre_low, Ch)),
            um_from_encoder_value(Ch, Val(call.target)),
            Val(AttrOf(call.pre_high, Ch)))

\* C27 (as claimed): scan bounds govern moves once set: after a set_scan_limit
\* call that did not fail, a move_um on that channel is accepted when its
\* realized target lies within [scan_lowest_um, scan_highest_um] and rejected
\* with OutOfRange when it lies outside, for every stored bound value.
C27_ScanBoundsGovernMoves ==
    (/\ HasTarget /\ call.op = "move_um"
     /\ ScanLimitSetBefore
     /\ call.err \notin LinkFaults)
        => IF TargetInScanBounds
           THEN call.err = "none"
           ELSE call.err = "OutOfRange"

\* channel i has in attribute attr what it had in pre
KeptFor(attr, pre, i) == attr.list = pre.list /\ AttrOf(attr, i) = AttrOf(pre, i)

\* C28 (as claimed): per-channel isolation of limits: a set_scan_limit or
\* set_retract_point call on one channel leaves the scan bounds, the retract
\* point and the physical limits of every other channel unchanged, and leaves
\* the bounds of the same channel that it did not select unchanged.
C28_LimitsIsolated ==
    (/\ Bound /\ call.op \in {"set_stage_limit_um", "set_retract_point_um"}
     /\ call.err = "none")
        => /\ \A i \in Index \ {Ch} :
                 /\ KeptFor(stage_lowest_scan_point_um, call.pre_low, i)
                 /\ KeptFor(stage_highest_scan_point_um, call.pre_high, i)
                 /\ KeptFor(stage_retract_point_um, call.pre_retr, i)
                 /\ stage_lower_limit_um[i] = InitLowerLimit(i)
                 /\ stage_upper_limit_um[i] = InitUpperLimit(i)
           /\ (call.op = "set_stage_limit_um" /\ call.lower)
                 => /\ KeptFor(stage_highest_scan_point_um, call.pre_high, Ch)
                    /\ KeptFor(stage_retract_point_um, call.pre_retr, Ch)
           /\ call.op = "set_retract_point_um"
                 => /\ KeptFor(stage_lowest_scan_point_um, call.pre_low, Ch)
                    /\ KeptFor(stage_highest_scan_point_um, call.pre_high, Ch)

\* bound a is more restrictive than retract point r on channel i: below it,
\* in the direction of the axis
MoreRestrictive(i, a, r) == IF reverse[i] THEN r < a ELSE r > a

\* C29 (as claimed): retract tightening: when set_scan_limit moves the upper
\* scan bound of a channel (to an explicit value within the physical limits)
\* the call completes; if the new bound is more restrictive than the
\* channel's retract point, the retract point afterwards equals the new
\* bound, and otherwise the retract point is unchanged.
C29_RetractTightened ==
    (/\ Bound /\ call.op = "set_stage_limit_um" /\ ~call.lower
     /\ call.um # None /\ Val(call.um) # 0
     /\ Between(Ch, Val(stage_lower_limit_um[Ch]), Val(call.um),
                Val(stage_upper_limit_um[Ch]))
     /\ AttrOf(call.pre_retr, Ch) # None)
        => /\ call.err = "none"
           /\ AttrOf(stage_highest_scan_point_um, Ch) = call.um
           /\ AttrOf(stage_retract_point_um, Ch)
                 = (IF MoreRestrictive(Ch, Val(call.um), Val(AttrOf(call.pre_retr, Ch)))
                    THEN call.um
                    ELSE AttrOf(call.pre_retr, Ch))

\* C30: cross-axis isolation of motion: a move_um (blocking or not), an
\* explicit resolve or a get_position_um on one channel changes neither the
\* current encoder nor the pending target of any other channel and writes no
\* frame addressed to another channel: an axis left Moving by a non-blocking
\* move is still Moving, with the same pending target, after the call.
C30_OtherAxesUntouched ==
    (OnChannel /\ call.op \in {"move_um", "finish_move", "get_position_um"})
        => /\ \A e \in Events : e.ch = Ch
           /\ \A i \in Index \ {Ch} :
                 /\ current_encoder_value[i] = call.pre_cur[i]
                 /\ pending_encoder_value[i] = call.pre_pend[i]
                 /\ outstanding[i] = call.pre_out[i]

\* C30 witness: a blocking move with its nudge has been made on channel 1
\* while channel 2 is Moving: channel 1 has moved, channel 2 is still Moving
C30_Witness ==
    /\ call.op = "move_um" /\ call.channel = 1 /\ call.block
    /\ call.err = "none" /\ call.nudges = 1
    /\ Len(MoveFrames) = 2
    /\ current_encoder_value[0] # call.pre_cur[0]
    /\ call.pre_pend[1] # None
    /\ pending_encoder_value[1] = call.pre_pend[1]
    /\ current_encoder_value[1] # pending_encoder_value[1]

\* C31 (as claimed): one move command per ordinary move: a blocking absolute
\* move_um from an Idle axis whose target differs from the current encoder by
\* more than the minimum-motion threshold writes exactly one move-to frame,
\* with the target encoder trunc(value / conversion) (sign-flipped if
\* reversed), and on a confirming device returns Idle with the current
\* encoder equal to that target.
C31_OneFramePerOrdinaryMove ==
    (/\ HasTarget /\ call.op = "move_um" /\ ~call.relative /\ call.block
     /\ IdleBefore /\ Delta > min_encoder_motion
     /\ ScanListsIntact /\ TargetInBounds
     /\ AllTargetsReached /\ call.err \notin LinkFaults)
        => /\ call.err = "none"
           /\ Val(call.target) = encoder_value_from_um(Ch, Val(call.um))
           /\ Len(MoveFrames) = 1
           /\ MoveFrames[1].ch = Ch
           /\ MoveFrames[1].enc = Val(call.target)
           /\ pending_encoder_value[Ch] = None
           /\ current_encoder_value[Ch] = call.target

\* C32: resolve_move on an Idle axis is a no-op: it writes no frame, performs
\* no read, raises no error and leaves the current encoder and the pending
\* target (and everything else) unchanged.
C32_ResolveIdleIsNoOp ==
    (OnChannel /\ call.op = "finish_move" /\ call.pre_pend[Ch] = None)
        => /\ call.wire = <<>>
           /\ call.err = "none"
           /\ NothingChanged

\* C32 witness: an explicit resolve made on a bound axis that is Idle
C32_Witness ==
    /\ OnChannel /\ call.op = "finish_move"
    /\ stages[Ch] # None
    /\ call.pre_pend[Ch] = None /\ call.pre_cur[Ch] # None
    /\ call.wire = <<>>

\* four bytes read as a little-endian signed 32-bit integer, byte by byte
SignedLE(b) ==
    LET top == IF b[4] >= 128 THEN b[4] - 256 ELSE b[4]
    IN  ((top * 256 + b[3]) * 256 + b[2]) * 256 + b[1]
Last4(b) == SubSeq(b, Len(b) - 3, Len(b))
ReadKinds == {"query", "poll", "zero_wait"}
\* reads whose response passed the checks of _send and of _get_encoder_value
AcceptedNotes == {"", "reached", "timeout"}

\* int32 values with the bytes int.to_bytes(4, 'little', signed=True) gives
KnownEncodings ==
    {<<0, <<0, 0, 0, 0>>>>, <<1, <<1, 0, 0, 0>>>>, <<-1, <<255, 255, 255, 255>>>>,
     <<127, <<127, 0, 0, 0>>>>, <<128, <<128, 0, 0, 0>>>>, <<255, <<255, 0, 0, 0>>>>,
     <<256, <<0, 1, 0, 0>>>>, <<-256, <<0, 255, 255, 255>>>>,
     <<-257, <<255, 254, 255, 255>>>>, <<65535, <<255, 255, 0, 0>>>>,
     <<65536, <<0, 0, 1, 0>>>>, <<-65536, <<0, 0, 255, 255>>>>,
     <<16777216, <<0, 0, 0, 1>>>>, <<-16777217, <<255, 255, 255, 254>>>>,
     <<60000, <<96, 234, 0, 0>>>>, <<-60000, <<160, 21, 255, 255>>>>,
     <<4724, <<116, 18, 0, 0>>>>,
     <<2147483647, <<255, 255, 255, 127>>>>,
     <<-2147483647 - 1, <<0, 0, 0, 128>>>>}
\* the int32 values the round trip is checked on: the table, and every
\* encoder of the travel range in steps of 97 on both sides of zero
Int32Checked ==
    {p[1] : p \in KnownEncodings} \cup {97 * k : k \in -620..620}

\* the codec of the model gives the bytes of the table, both ways
KnownEncodingsHold ==
    \A p \in KnownEncodings :
        /\ signed_to_bytes(p[1]) = p[2]
        /\ int_from_bytes(p[2]) = p[1]
\* decoding the 4 bytes of a value returns the value
CodecRoundTrips ==
    \A v \in Int32Checked :
        /\ int_from_bytes(signed_to_bytes(v)) = v
        /\ \A k \in 1..4 : signed_to_bytes(v)[k] \in 0..255

\* C33: channel addressing and codec: every frame written on behalf of label
\* c carries the internal index c-1 in its channel field (byte 2 of a query,
\* bytes 6..7 of a zero or move frame); a position response is accepted only
\* if its byte 6 equals c-1, and the encoder decoded from it is its last 4
\* bytes read as a little-endian signed 32-bit integer; a move frame carries
\* its target as 4 little-endian signed bytes, and decoding the 4 bytes of a
\* target returns the target for the int32 values checked.
C33_ChannelAddressingAndCodec ==
    /\ \A e \in Events :
          /\ OnChannel => e.ch = call.channel - 1
          /\ e.k \in ReadKinds =>
                /\ e.frame = <<10, 4, e.ch, 0, 0, 0>>
                /\ Len(e.resp) = 12
                /\ e.note \in AcceptedNotes =>
                      /\ e.resp[7] = e.ch
                      /\ e.enc = SignedLE(Last4(e.resp))
                /\ e.note = "ProtocolMismatch" => e.resp[7] # e.ch
          /\ e.k = "zero" =>
                e.frame = <<9, 4, 6, 0, 0, 0, e.ch, 0, 0, 0, 0, 0>>
          /\ e.k = "move" =>
                /\ SubSeq(e.frame, 1, 8) = <<83, 4, 6, 0, 0, 0, e.ch, 0>>
                /\ Len(e.frame) = 12
                /\ SignedLE(Last4(e.frame)) = e.enc
                /\ int_from_bytes(Last4(e.frame)) = e.enc
    /\ (call.op = "get_position_um" /\ call.err = "none") =>
          call.ret = Some(um_from_encoder_value(Ch, SignedLE(Last4(LastEvent.resp))))
    /\ KnownEncodingsHold
    /\ CodecRoundTrips

\* C33 witness: a blocking move on label 2 (index 1, reversed) wrote a move
\* frame whose target is negative and takes more than one byte, and the
\* read that confirmed it decoded that same negative value
C33_Witness ==
    /\ call.op = "move_um" /\ call.channel = 2 /\ call.err = "none"
    /\ \E e \in MoveEvents :
          /\ e.enc < -255 /\ e.frame[7] = 1
          /\ \E r \in Events :
                /\ r.k = "poll" /\ r.note = "reached"
                /\ r.enc = e.enc /\ r.resp[7] = 1
                /\ Last4(r.resp) = Last4(e.frame)

\* the reads of the call, before its last frame, that stored a position
EarlierStores ==
    UNION {{k \in StoringReads(i) : k < Len(call.wire)} : i \in Index}

\* C34: LinkDesync: when bytes are left on the link after a command was
\* written (and its response, if any, read) the operation fails: it returns
\* no value and that command is the last frame of the call.  The current
\* encoder of every channel keeps the value it had before that command (the
\* value of before the call when no earlier read of the call stored one), and
\* when the command is a position query its response updates nothing: not the
\* current encoder, not the pending target, not the scan bounds and the
\* retract point (which a failed construction has set from the stage table
\* before its first query).
C34_LinkDesyncStoresNothing ==
    call.err = "LinkDesync" =>
        /\ call.wire # <<>>
        /\ call.ret = None
        /\ current_encoder_value = Replay(Len(call.wire) - 1).cur
        /\ EarlierStores = {} => current_encoder_value = call.pre_cur
        /\ LastEvent.k \in ReadKinds =>
              /\ LastEvent.note = "LinkDesync"
              /\ pending_encoder_value = Replay(Len(call.wire) - 1).pend
              /\ call.op # "open" =>
                    /\ stage_lowest_scan_point_um = call.pre_low
                    /\ stage_highest_scan_point_um = call.pre_high
                    /\ stage_retract_point_um = call.pre_retr
        /\ LastEvent.k \notin ReadKinds => LastEvent.note \in {"", "pipelined"}

\* C34 witness: a blocking move on a Moving axis whose poll loop met leftover
\* bytes on the link after the response of a query
C34_Witness ==
    /\ OnChannel /\ call.op = "move_um" /\ call.err = "LinkDesync"
    /\ call.pre_pend[Ch] # None /\ call.pre_cur[Ch] # None
    /\ Len(call.wire) >= 1
    /\ LastEvent.k = "poll" /\ LastEvent.note = "LinkDesync"
    /\ current_encoder_value[Ch] = call.pre_cur[Ch]

IsZero(e) == e.k = "zero"
ZeroFrames == SelectSeq(call.wire, IsZero)
ZeroingCall == call.op = "set_encoder_value_to_zero" /\ OnChannel

\* what holds of a zeroing call, running or ended
ZeroingKeeps ==
    ZeroingCall =>
        /\ call.err \in {"none", "running", "ConfigurationError"} \cup LinkFaults
        /\ pending_encoder_value = call.pre_pend
        /\ stage_lowest_scan_point_um = call.pre_low
        /\ stage_highest_scan_point_um = call.pre_high
        /\ stage_retract_point_um = call.pre_retr
        /\ \A i \in Index \ {Ch} : current_encoder_value[i] = call.pre_cur[i]
        /\ call.err \in {"none", "running"} =>
              /\ Len(ZeroFrames) = 1
              /\ ZeroFrames[1].ch = Ch
        /\ call.err = "running" =>
              /\ current_encoder_value = call.pre_cur
              /\ LastEvent.k = "zero_wait" => LastEvent.enc # 0
        /\ call.err = "none" =>
              /\ Len(call.wire) >= 2
              /\ LastEvent.k = "zero_wait" /\ LastEvent.ch = Ch
              /\ LastEvent.note = "reached" /\ LastEvent.enc = 0
              /\ call.wire[Len(call.wire) - 1].k = "zero"
              /\ current_encoder_value[Ch] = Some(0)
        /\ call.err \notin {"none", "running"} =>
              current_encoder_value = call.pre_cur

\* a step of a running zeroing call: the loop makes one more read, and the
\* call ends only on a read of 0 or on a failing read; no step touches the
\* pending targets, the limits, the scan bounds or the retract point
ZeroingStep ==
    Zeroing =>
        /\ call'.op = call.op /\ call'.channel = call.channel
        /\ \/ call'.err = "running"
              /\ call'.wire[Len(call'.wire)].n = ZeroPolls + 1
           \/ call'.err = "none"
              /\ call'.wire[Len(call'.wire)].k = "zero_wait"
              /\ call'.wire[Len(call'.wire)].enc = 0
              /\ call'.wire[Len(call'.wire)].n = ZeroPolls + 1
           \/ call'.err \in LinkFaults
        /\ UNCHANGED <<pending_encoder_value, stage_upper_limit_um, stage_lower_limit_um,
                       stage_lowest_scan_point_um, stage_highest_scan_point_um,
                       stage_retract_point_um, phase>>

\* C35: encoder zeroing writes one zero-encoder frame and returns only after
\* a position query for that channel has returned 0, then sets the current
\* encoder to 0; it leaves the pending target and all limit, scan and retract
\* values unchanged; it has no deadline: while the device reports something
\* else the loop goes on reading, however many reads it has made, and the call
\* never ends with a timeout.
C35_ZeroingWaitsForZero == []ZeroingKeeps /\ [][ZeroingStep]_vars

\* C35 witness: a zeroing call on a Moving axis that returned at the read at
\* which the device reported 0, more reads (of 1 ms or more) after the zero
\* frame than the deadline of a resolve has milliseconds
C35_Witness ==
    /\ ZeroingCall /\ call.err = "none"
    /\ call.pre_pend[Ch] # None
    /\ pending_encoder_value[Ch] = call.pre_pend[Ch]
    /\ call.pre_cur[Ch] # Some(0)
    /\ current_encoder_value[Ch] = Some(0)
    /\ LastEvent.n > TimeoutMs

\* no call has replaced the per-channel list of upper scan bounds or of
\* retract points: a set_scan_limit call for the upper bound stores before it
\* fails, every other failing call stores nothing
NoFailedCallStored ==
    stage_highest_scan_point_um.list /\ stage_retract_point_um.list

\* C36 (as claimed): the retract point stays inside the scan window: after
\* construction and after any sequence of set_scan_limit and
\* set_retract_point calls that did not fail, the retract point of each bound
\* channel lies within [scan_lowest_um, scan_highest_um] (direction-aware);
\* after construction it is one conversion step inside scan_highest_um.
C36_RetractInsideScanWindow ==
    /\ (phase = "open" /\ NoFailedCallStored) =>
          \A i \in Index :
             stages[i] # None =>
                /\ AttrOf(stage_retract_point_um, i) # None
                /\ AttrOf(stage_lowest_scan_point_um, i) # None
                /\ AttrOf(stage_highest_scan_point_um, i) # None
                /\ Between(i, Val(AttrOf(stage_lowest_scan_point_um, i)),
                              Val(AttrOf(stage_retract_point_um, i)),
                              Val(AttrOf(stage_highest_scan_point_um, i)))
    /\ (call.op = "open" /\ call.err = "none") =>
          \A i \in Index :
             stages[i] # None =>
                Val(AttrOf(stage_retract_point_um, i)) =
                    Val(AttrOf(stage_highest_scan_point_um, i))
                        - UnitsPerCount * reverse_factors(i)

\* the in-range encoders the round trip of C37 is examined on
RoundTripEncoders(i) == {reverse_factors(i) * e : e \in 0..200}

\* C37 (as claimed): the target sent is the target legalized: for every
\* accepted move the encoder move_um writes in the move-to frame and stores as
\* pending target equals the target encoder legalize_move_um computed and
\* validated, that is encoder_from_um(um_from_encoder(e)) = e for every
\* in-range encoder e, on reversed and non-reversed axes.
C37_SentIsLegalized ==
    /\ (/\ HasTarget /\ call.op = "move_um" /\ call.err = "none"
        /\ call.nudges = 0 /\ MoveEvents # {})
          => /\ LastMoveEvent.enc = Val(call.target)
             /\ ~call.block => pending_encoder_value[Ch] = call.target
    /\ \A i \in Index :
          stages[i] # None =>
             \A e \in RoundTripEncoders(i) :
                encoder_value_from_um(i, um_from_encoder_value(i, e)) = e

\* C38: get_position_um is a pure query: on a bound channel it writes exactly
\* one query-position frame and, when the read does not fail, returns the
\* micrometre value of the encoder the device reported in that response, not
\* of the cached current encoder; failing or not, it changes neither the
\* current encoder nor the pending target (nor anything else), also on a
\* Moving axis.
C38_GetPositionIsPureQuery ==
    (Bound /\ call.op = "get_position_um") =>
        /\ Len(call.wire) = 1
        /\ call.wire[1].k = "query" /\ call.wire[1].ch = Ch
        /\ call.wire[1].frame = <<10, 4, Ch, 0, 0, 0>>
        /\ call.err \in {"none"} \cup LinkFaults
        /\ call.err = "none" =>
              call.ret = Some(um_from_encoder_value(
                                  Ch, SignedLE(Last4(call.wire[1].resp))))
        /\ call.err # "none" => call.ret = None
        /\ NothingChanged

\* C38 witness: a position query on a Moving axis whose device reported an
\* encoder that is neither the cached current encoder nor the pending
\* target: the value returned is the device's, and the cached encoder is
\* still the old one
C38_Witness ==
    /\ Bound /\ call.op = "get_position_um" /\ call.err = "none"
    /\ call.pre_pend[Ch] # None /\ call.pre_cur[Ch] # None
    /\ Len(call.wire) = 1
    /\ call.wire[1].enc # Val(call.pre_cur[Ch])
    /\ call.wire[1].enc # Val(call.pre_pend[Ch])
    /\ call.ret = Some(um_from_encoder_value(Ch, call.wire[1].enc))
    /\ call.ret # Some(um_from_encoder_value(Ch, Val(current_encoder_value[Ch])))
    /\ current_encoder_value[Ch] = call.pre_cur[Ch]
    /\ pending_encoder_value[Ch] = call.pre_pend[Ch]

=============================================================================
